---------------------------- MODULE Spec2Model ----------------------------
(***************************************************************************)
(* thoughtkeeper: the blog server's request dispatcher                     *)
(* (src/src/server.rs), the two SQLite tables it works on, and the slug    *)
(* derivation to_url (src/src/article.rs).                                 *)
(*                                                                         *)
(* A handler is one action: it runs on a connection of its own and, in     *)
(* this specification, from its first statement to its response without    *)
(* another handler in between.  Every SQL statement is an operator on the  *)
(* table it reads or writes, so that the handler is the composition of     *)
(* its statements in source order.  Statements are taken to succeed at     *)
(* the storage layer except where the data decides otherwise (a primary    *)
(* key that is already taken, a row that is not there).                    *)
(*                                                                         *)
(* Strings that the code inspects character by character (titles, urls)    *)
(* are sequences of characters; strings it only stores or compares         *)
(* (contents, ids, tokens) are atoms.                                      *)
(***************************************************************************)
EXTENDS Integers, Sequences, FiniteSets, TLC

VARIABLES
    articles,   \* table articles, in rowid (storage) order
    secrets,    \* table secrets, in rowid order
    clock,      \* the last value Utc::now() returned
    issued,     \* history: the tokens create_secret has generated
    collided,   \* history: create_secret once generated a token a second time
    revoked,    \* history: the tokens of the rows revoke_secret deleted
    last,       \* history: the most recent HTTP request and its outcome
    slug,       \* the slug derivation applied to a title, and applied again
    workers     \* the runs of handle_api_request that are in flight

vars ==
    <<articles, secrets, clock, issued, collided, revoked, last, slug, workers>>

---------------------------------------------------------------------------
(* Bounds *)

MaxTime == 1
MaxListTime == 2
MaxSecretId == 2
MaxLen == 3

---------------------------------------------------------------------------
(* Characters and their classes: char::is_whitespace and                   *)
(* char::is_alphanumeric are the Unicode predicates.                       *)

AsciiLetters == {"a", "Z"}
AsciiDigits == {"7"}
\* U+00E9 (a letter) is alphanumeric for char::is_alphanumeric
NonAsciiAlphanumerics == {"U+00E9"}
\* U+00A0 (no-break space) has the White_Space property
Whitespace == {" ", "U+00A0"}
Punctuation == {"!", ","}
Unreserved == {"-", ".", "_", "~"}

Alphabet ==
    AsciiLetters \cup AsciiDigits \cup NonAsciiAlphanumerics \cup Whitespace
        \cup Punctuation \cup Unreserved

is_whitespace(c) == c \in Whitespace

is_alphanumeric(c) == c \in AsciiLetters \cup AsciiDigits \cup NonAsciiAlphanumerics

\* faulty variant: '_' is missing from the literal of characters that pass
filter_map_char_without_underscore(c) ==
    IF is_whitespace(c) THEN <<"_">>
    ELSE IF c \in {"-", ".", "~"} \/ is_alphanumeric(c) THEN <<c>>
    ELSE <<>>

\* faulty variant: the last arm keeps the character
filter_map_char_keeps_the_rest(c) ==
    IF is_whitespace(c) THEN <<"_">> ELSE <<c>>

\* the closure of to_url's filter_map: <<c'>> for Some(c'), <<>> for None
filter_map_char(c) ==
    IF is_whitespace(c) THEN <<"_">>
    ELSE IF c \in Unreserved \/ is_alphanumeric(c) THEN <<c>>
    ELSE <<>>

RECURSIVE to_url(_)
to_url(title) ==
    IF title = <<>> THEN <<>>
    ELSE filter_map_char(Head(title)) \o to_url(Tail(title))

---------------------------------------------------------------------------
(* Option<T> *)

None == [some |-> FALSE]
Some(x) == [some |-> TRUE, value |-> x]

---------------------------------------------------------------------------
(* Finite sequences over a set *)

RECURSIVE SeqsUpTo(_, _)
SeqsUpTo(S, n) ==
    IF n = 0 THEN {<<>>}
    ELSE LET shorter == SeqsUpTo(S, n - 1)
         IN shorter \cup {Append(s, c) : s \in shorter, c \in S}

---------------------------------------------------------------------------
(* The tables.  A table is the sequence of its rows in rowid order: a      *)
(* statement without ORDER BY scans it in that order, and an INSERT gets   *)
(* the largest rowid plus one, so a new row is the last one.               *)

Ids(table) == {table[i].id : i \in DOMAIN table}

\* the Article struct and the row of table articles
ArticleRow(id, title, content, published) ==
    [id |-> id, title |-> title, content |-> content, published |-> published]

\* Article::new: a random UUID and the current time are stamped on
Article_new(uuid, now, title, content) == ArticleRow(uuid, title, content, now)

\* INSERT INTO articles ( id, title, content, published ) VALUES (?1, ?2, ?3, ?4)
\* id is the table's primary key: the statement fails when the id is taken
InsertFails(table, article) == article.id \in Ids(table)

InsertArticle(table, article) == Append(table, article)

\* SELECT id, title FROM articles
SelectIdTitle(table) ==
    [i \in DOMAIN table |-> [id |-> table[i].id, title |-> table[i].title]]

\* faulty variant: the scan compares the title itself with url
RECURSIVE find_map_by_title(_, _)
find_map_by_title(titles, url) ==
    IF titles = <<>> THEN None
    ELSE IF Head(titles).title = url THEN Some(Head(titles).id)
    ELSE find_map_by_title(Tail(titles), url)

\* faulty variant: the scan keeps the last row whose title's slug is url
RECURSIVE find_map_last(_, _)
find_map_last(titles, url) ==
    IF titles = <<>> THEN None
    ELSE IF to_url(titles[Len(titles)].title) = url
    THEN Some(titles[Len(titles)].id)
    ELSE find_map_last(SubSeq(titles, 1, Len(titles) - 1), url)

\* titles.iter().find_map(..): the id of the first row whose title's slug is
\* url, or None
RECURSIVE find_map(_, _)
find_map(titles, url) ==
    IF titles = <<>> THEN None
    ELSE IF to_url(Head(titles).title) = url THEN Some(Head(titles).id)
    ELSE find_map(Tail(titles), url)

\* SELECT * FROM articles WHERE id = ?  (fetch_one: the first row, or
\* RowNotFound)
SelectById(table, id) ==
    LET hits == SelectSeq(table, LAMBDA r : r.id = id)
    IN IF hits = <<>> THEN None ELSE Some(Head(hits))

\* DELETE FROM articles WHERE id = ?
DeleteArticle(table, id) == SelectSeq(table, LAMBDA r : r.id # id)

\* SELECT id, title, published FROM articles, mapped to ArticleMetadata
SelectMetadata(table) ==
    [i \in DOMAIN table |->
        [id |-> table[i].id, title |-> table[i].title,
         published |-> table[i].published]]

\* faulty variant: the statement inserts the row when no row has the id
UpdateTitleAndContent_upsert(table, id, title, content) ==
    IF \E i \in DOMAIN table : table[i].id = id
    THEN [i \in DOMAIN table |->
            IF table[i].id = id
            THEN [table[i] EXCEPT !.title = title, !.content = content]
            ELSE table[i]]
    ELSE Append(table, [id |-> id, title |-> title, content |-> content,
                        published |-> clock])

\* UPDATE articles SET title = ?, content = ? WHERE id = ?
UpdateTitleAndContent(table, id, title, content) ==
    [i \in DOMAIN table |->
        IF table[i].id = id
        THEN [table[i] EXCEPT !.title = title, !.content = content]
        ELSE table[i]]

\* faulty variant: the statement also sets published to the current time
UpdateContent_republishes(table, id, content) ==
    [i \in DOMAIN table |->
        IF table[i].id = id
        THEN [table[i] EXCEPT !.content = content, !.published = clock]
        ELSE table[i]]

\* UPDATE articles SET content = ? WHERE id = ?
UpdateContent(table, id, content) ==
    [i \in DOMAIN table |->
        IF table[i].id = id THEN [table[i] EXCEPT !.content = content]
        ELSE table[i]]

\* faulty variant: the WHERE clause is missing, every row gets the title
UpdateTitle_every_row(table, id, title) ==
    [i \in DOMAIN table |-> [table[i] EXCEPT !.title = title]]

\* UPDATE articles SET title = ? WHERE id = ?
UpdateTitle(table, id, title) ==
    [i \in DOMAIN table |->
        IF table[i].id = id THEN [table[i] EXCEPT !.title = title]
        ELSE table[i]]

\* the orders a table's rows may come in
Permutations_of(table) ==
    {[i \in DOMAIN table |-> table[p[i]]] : p \in Permutations(DOMAIN table)}

\* faulty variant: the ORDER BY clause is missing, the rows come in rowid order
OrderedByPublishedDesc_unordered(table) == {table}

\* SELECT * FROM articles ORDER BY published DESC: every row, a later
\* published before an earlier one; SQL leaves the order of rows with equal
\* keys open
OrderedByPublishedDesc(table) ==
    {r \in Permutations_of(table) :
        \A i, j \in DOMAIN r : i < j => r[i].published >= r[j].published}

\* faulty variant: the WHERE clause is missing, any row makes the secret valid
is_secret_valid_any_row(secret, table) == table # <<>>

\* faulty variant: a token once generated stays valid (a cache that revoke_secret
\* does not reach)
is_secret_valid_cached(secret, table) == secret \in issued

\* SELECT id FROM secrets WHERE secret = ?  ... .is_some()
is_secret_valid(secret, table) ==
    \E i \in DOMAIN table : table[i].secret = secret

\* INSERT INTO secrets (secret, description): id is the INTEGER PRIMARY KEY,
\* which SQLite sets to the largest id in the table plus one
NextSecretId(table) ==
    IF table = <<>> THEN 1
    ELSE 1 + CHOOSE m \in Ids(table) : \A k \in Ids(table) : k <= m

InsertSecret(table, secret) ==
    Append(table, [id |-> NextSecretId(table), secret |-> secret])

\* DELETE FROM secrets where id = ?
DeleteSecret(table, id) == SelectSeq(table, LAMBDA r : r.id # id)

---------------------------------------------------------------------------
(* Requests (InnerRequest) and response bodies *)

CreateArticle(title, content) ==
    [op |-> "CreateArticle", title |-> title, content |-> content]
GetArticle(url) == [op |-> "GetArticle", url |-> url]
YankArticle(id) == [op |-> "YankArticle", id |-> id]
UpdateArticle(id, title, content) ==
    [op |-> "UpdateArticle", id |-> id, title |-> title, content |-> content]
ListArticles == [op |-> "ListArticles"]

\* the variants of enum Response
ResponseVariants ==
    {"Article", "ArticleId", "ArticleMetadata", "Untyped", "Ok", "Error"}

Response_Error(message) == [kind |-> "Error", body |-> message]
Response_ArticleId(id) == [kind |-> "ArticleId", body |-> id]
Response_ArticleMetadata(list) == [kind |-> "ArticleMetadata", body |-> list]
Response_Ok == [kind |-> "Ok", body |-> "Ok"]
Response_Article(article) == [kind |-> "Article", body |-> article]

\* Json(serde_json::to_string(&article)): the body is a JSON string whose
\* text is the serialized Article struct, not a variant of Response
Json_String(article) == [kind |-> "String", body |-> article]

\* TkError::into_response: status 500, "Internal Server Error: {}"
InternalServerError(message) == [kind |-> "InternalServerError", body |-> message]

\* what a handler leaves behind: the table and the body it answers with
Outcome(table, response) == [articles |-> table, response |-> response]

---------------------------------------------------------------------------
(* handle_api_request, arm by arm *)

create_article(table, title, content, uuid, now) ==
    LET article == Article_new(uuid, now, title, content)
    IN IF InsertFails(table, article)
       THEN Outcome(table, InternalServerError("UNIQUE constraint failed"))
       ELSE Outcome(InsertArticle(table, article), Response_ArticleId(article.id))

\* faulty variant: a url that no title has is answered with a typed error
get_article_api_typed_error(table, url) ==
    LET titles == SelectIdTitle(table)
        id == find_map(titles, url)
    IN IF ~id.some
       THEN Outcome(table, Response_Error("No article with url found"))
       ELSE LET article == SelectById(table, id.value)
            IN IF ~article.some
               THEN Outcome(table, InternalServerError("RowNotFound"))
               ELSE Outcome(table, Json_String(article.value))

get_article_api(table, url) ==
    LET titles == SelectIdTitle(table)
        id == find_map(titles, url)
    IN IF ~id.some
       THEN Outcome(table, InternalServerError("No article with url found"))
       ELSE LET article == SelectById(table, id.value)
            IN IF ~article.some
               THEN Outcome(table, InternalServerError("RowNotFound"))
               ELSE Outcome(table, Json_String(article.value))

\* faulty variant: the arm checks that the statement deleted a row
yank_article_checks_rows_affected(table, id) ==
    IF id \in Ids(table) THEN Outcome(DeleteArticle(table, id), Response_Ok)
    ELSE Outcome(table, InternalServerError("no rows affected"))

yank_article(table, id) == Outcome(DeleteArticle(table, id), Response_Ok)

list_articles(table) ==
    Outcome(table, Response_ArticleMetadata(SelectMetadata(table)))

update_article(table, id, title, content) ==
    LET updated ==
            IF title.some /\ content.some
            THEN UpdateTitleAndContent(table, id, title.value, content.value)
            ELSE IF ~title.some /\ content.some
            THEN UpdateContent(table, id, content.value)
            ELSE IF title.some /\ ~content.some
            THEN UpdateTitle(table, id, title.value)
            ELSE table
    IN Outcome(updated, Response_Ok)

match_request(table, request, uuid, now) ==
    CASE request.op = "CreateArticle" ->
            create_article(table, request.title, request.content, uuid, now)
      [] request.op = "GetArticle" -> get_article_api(table, request.url)
      [] request.op = "YankArticle" -> yank_article(table, request.id)
      [] request.op = "ListArticles" -> list_articles(table)
      [] request.op = "UpdateArticle" ->
            update_article(table, request.id, request.title, request.content)

\* the gate of handle_api_request, then the match
dispatch(secret, request, secretsTable, table, uuid, now) ==
    IF ~is_secret_valid(secret, secretsTable)
    THEN Outcome(table, Response_Error("Invalid secret"))
    ELSE match_request(table, request, uuid, now)

---------------------------------------------------------------------------
(* History of requests.  last is what an observer of the most recent HTTP  *)
(* request wrote down: the request, whether a row of secrets held its      *)
(* token when it came in, whether that token had been revoked by then and  *)
(* whether every token generated until then was a new one, the response,   *)
(* the articles table before it, and, of the request before it, the        *)
(* operation, the id of the article it deleted or created, and whether     *)
(* its token was in the table.                                             *)

ApiOps ==
    {"CreateArticle", "GetArticle", "YankArticle", "UpdateArticle", "ListArticles"}

NoRequest ==
    [request |-> [op |-> "none"], secret |-> "none", valid |-> FALSE,
     afterRevoke |-> FALSE, distinctTokens |-> TRUE,
     response |-> [kind |-> "none", body |-> "none"], before |-> <<>>,
     follows |-> [op |-> "none", id |-> "none", valid |-> FALSE]]

ArticleIdOf(entry) ==
    IF entry.request.op = "YankArticle" THEN entry.request.id
    ELSE IF entry.request.op = "CreateArticle" /\ entry.response.kind = "ArticleId"
    THEN entry.response.body
    ELSE "none"

Record(request, secret, response) ==
    last' = [request |-> request, secret |-> secret,
             valid |-> secret \in {secrets[i].secret : i \in DOMAIN secrets},
             afterRevoke |-> secret \in revoked,
             distinctTokens |-> ~collided,
             response |-> response, before |-> articles,
             follows |-> [op |-> last.request.op, id |-> ArticleIdOf(last),
                          valid |-> last.valid]]

NoSlug == [title |-> <<>>, once |-> None, twice |-> None]

---------------------------------------------------------------------------
(* Requests in flight.  The pool gives every run of handle_api_request a   *)
(* connection of its own and every statement commits by itself, so the     *)
(* statements of two runs, and the DELETE of secret revoke, interleave.    *)
(* A worker is one run: it holds its request, stands before the gate       *)
(* ("check") or before the next statement of its match arm ("run"), and    *)
(* keeps its response when it is done.  History: validAtCheck, a row of    *)
(* secrets held the token when the gate's SELECT ran; revokedAtRun, no row *)
(* held it when one of the run's statements ran; raced, a statement of     *)
(* the run was executed while the other worker's present request was past  *)
(* its gate and had a statement left to execute.                           *)

Workers == {"w1", "w2"}

Peer(w) == CHOOSE v \in Workers : v # w

Idle ==
    [pc |-> "idle", secret |-> "none", request |-> [op |-> "none"],
     pending |-> <<>>, response |-> [kind |-> "none", body |-> "none"],
     validAtCheck |-> FALSE, revokedAtRun |-> FALSE, raced |-> FALSE]

NoWorkers == [w \in Workers |-> Idle]

InsertStatement(article) == [stmt |-> "INSERT", article |-> article]

DeleteStatement(id) == [stmt |-> "DELETE", id |-> id]

UpdateTitleAndContentStatement(id, title, content) ==
    [stmt |-> "UPDATE title, content", id |-> id, title |-> title,
     content |-> content]

UpdateContentStatement(id, content) ==
    [stmt |-> "UPDATE content", id |-> id, content |-> content]

UpdateTitleStatement(id, title) ==
    [stmt |-> "UPDATE title", id |-> id, title |-> title]

\* faulty variant: title and content are written by a statement each
update_statements_field_by_field(id, title, content) ==
    (IF title.some THEN <<UpdateTitleStatement(id, title.value)>> ELSE <<>>)
    \o (IF content.some THEN <<UpdateContentStatement(id, content.value)>>
        ELSE <<>>)

\* the statements the UpdateArticle arm issues: one, or none
update_statements(id, title, content) ==
    IF title.some /\ content.some
    THEN <<UpdateTitleAndContentStatement(id, title.value, content.value)>>
    ELSE IF ~title.some /\ content.some
    THEN <<UpdateContentStatement(id, content.value)>>
    ELSE IF title.some /\ ~content.some
    THEN <<UpdateTitleStatement(id, title.value)>>
    ELSE <<>>

\* the statements on articles that the match arm of a writing request issues
statements(request, uuid, now) ==
    CASE request.op = "CreateArticle" ->
            <<InsertStatement(Article_new(uuid, now, request.title, request.content))>>
      [] request.op = "YankArticle" -> <<DeleteStatement(request.id)>>
      [] request.op = "UpdateArticle" ->
            update_statements(request.id, request.title, request.content)

\* the statement ends in an error, which the arm returns with ?
Fails(stmt, table) == stmt.stmt = "INSERT" /\ InsertFails(table, stmt.article)

\* the table after the statement
Execute(stmt, table) ==
    CASE stmt.stmt = "INSERT" -> InsertArticle(table, stmt.article)
      [] stmt.stmt = "DELETE" -> DeleteArticle(table, stmt.id)
      [] stmt.stmt = "UPDATE title, content" ->
            UpdateTitleAndContent(table, stmt.id, stmt.title, stmt.content)
      [] stmt.stmt = "UPDATE content" -> UpdateContent(table, stmt.id, stmt.content)
      [] stmt.stmt = "UPDATE title" -> UpdateTitle(table, stmt.id, stmt.title)

\* the response of the arm after its last statement
Answer(request, stmt) ==
    IF request.op = "CreateArticle" THEN Response_ArticleId(stmt.article.id)
    ELSE Response_Ok

---------------------------------------------------------------------------
(* The handlers *)

\* POST /api
handle_api_request(secret, request, uuid, now) ==
    LET out == dispatch(secret, request, secrets, articles, uuid, now)
    IN /\ articles' = out.articles
       /\ clock' = IF request.op = "CreateArticle" /\ is_secret_valid(secret, secrets)
                   THEN now ELSE clock
       /\ Record(request, secret, out.response)
       /\ UNCHANGED <<secrets, issued, collided, revoked, slug, workers>>

\* GET /article/:id
get_article(url) ==
    LET titles == SelectIdTitle(articles)
        id == find_map(titles, url)
        page == IF id.some
                THEN [kind |-> "ArticleTemplate",
                      body |-> SelectById(articles, id.value).value]
                ELSE [kind |-> "ErrorPage", body |-> "404"]
    IN /\ Record([op |-> "get_article", url |-> url], "none", page)
       /\ UNCHANGED <<articles, secrets, clock, issued, collided, revoked, slug,
                    workers>>

\* GET /
index ==
    \E rows \in OrderedByPublishedDesc(articles) :
        /\ Record([op |-> "index"], "none", [kind |-> "IndexPage", body |-> rows])
        /\ UNCHANGED <<articles, secrets, clock, issued, collided, revoked, slug,
                    workers>>

\* impl From<Article> for Item, with server.domain set in blog.toml (the
\* conversion unwraps it); the link is the slug of the title
Item(article) ==
    [title |-> article.title, link |-> to_url(article.title),
     content |-> article.content, pub_date |-> article.published]

\* GET /rss
rss_feed ==
    \E rows \in OrderedByPublishedDesc(articles) :
        /\ Record([op |-> "rss_feed"], "none",
                  [kind |-> "rss", body |-> [i \in DOMAIN rows |-> Item(rows[i])]])
        /\ UNCHANGED <<articles, secrets, clock, issued, collided, revoked, slug,
                    workers>>

\* thoughtkeeper secret create: a random token
create_secret(token) ==
    /\ NextSecretId(secrets) <= MaxSecretId
    /\ secrets' = InsertSecret(secrets, token)
    /\ issued' = issued \cup {token}
    /\ collided' = (collided \/ token \in issued)
    /\ UNCHANGED <<articles, clock, revoked, last, slug, workers>>

\* thoughtkeeper secret revoke --id
revoke_secret(id) ==
    /\ secrets' = DeleteSecret(secrets, id)
    /\ revoked' = revoked \cup {secrets[i].secret : i \in {k \in DOMAIN secrets : secrets[k].id = id}}
    /\ UNCHANGED <<articles, clock, issued, collided, last, slug, workers>>

---------------------------------------------------------------------------
(* The requests a client sends, drawn from the sets of a domain d: tokens, *)
(* titles, contents, uuids (what Uuid::new_v4 may return, and the ids a    *)
(* client names), urls, and maxTime, the latest time Utc::now returns.     *)

Options(S) == {None} \cup {Some(x) : x \in S}

ApiCreateArticle(d) ==
    \E secret \in d.tokens, title \in d.titles, content \in d.contents,
       uuid \in d.uuids, now \in clock..d.maxTime :
        handle_api_request(secret, CreateArticle(title, content), uuid, now)

ApiGetArticle(d) ==
    \E secret \in d.tokens, url \in d.urls :
        handle_api_request(secret, GetArticle(url), "unused", clock)

ApiYankArticle(d) ==
    \E secret \in d.tokens, id \in d.uuids :
        handle_api_request(secret, YankArticle(id), "unused", clock)

ApiUpdateArticle(d) ==
    \E secret \in d.tokens, id \in d.uuids, title \in Options(d.titles),
       content \in Options(d.contents) :
        handle_api_request(secret, UpdateArticle(id, title, content), "unused", clock)

ApiListArticles(d) ==
    \E secret \in d.tokens :
        handle_api_request(secret, ListArticles, "unused", clock)

GetArticlePage(d) == \E url \in d.urls : get_article(url)

CreateSecret(d) == \E token \in d.tokens : create_secret(token)

RevokeSecret == \E id \in 1..MaxSecretId : revoke_secret(id)

---------------------------------------------------------------------------
(* handle_api_request, statement by statement *)

\* POST /api arrives and the handler takes a connection from the pool
receive(w, secret, request) ==
    /\ workers[w].pc \in {"idle", "done"}
    /\ workers' = [workers EXCEPT
                      ![w] = [Idle EXCEPT !.pc = "check", !.secret = secret,
                                          !.request = request],
                      ![Peer(w)] = [@ EXCEPT !.raced = FALSE]]
    /\ UNCHANGED <<articles, secrets, clock, issued, collided, revoked, last,
                   slug>>

\* the gate: is_secret_valid, and for a valid secret the way into the match
\* arm (Article::new of CreateArticle included)
check_secret(w, uuid, now) ==
    LET self == workers[w]
        stmts == statements(self.request, uuid, now)
        present == self.secret \in {secrets[i].secret : i \in DOMAIN secrets}
    IN /\ self.pc = "check"
       /\ IF ~is_secret_valid(self.secret, secrets)
          THEN /\ workers' = [workers EXCEPT ![w] =
                                [self EXCEPT !.pc = "done",
                                             !.validAtCheck = present,
                                             !.response = Response_Error("Invalid secret")]]
               /\ clock' = clock
          ELSE IF stmts = <<>>
          THEN /\ workers' = [workers EXCEPT ![w] =
                                [self EXCEPT !.pc = "done",
                                             !.validAtCheck = present,
                                             !.response = Response_Ok]]
               /\ clock' = clock
          ELSE /\ workers' = [workers EXCEPT ![w] =
                                [self EXCEPT !.pc = "run",
                                             !.validAtCheck = present,
                                             !.pending = stmts]]
               /\ clock' = IF self.request.op = "CreateArticle" THEN now ELSE clock
       /\ UNCHANGED <<articles, secrets, issued, collided, revoked, last, slug>>

\* the next statement of the arm, and the response after the last one
run_statement(w) ==
    LET self == workers[w]
        stmt == Head(self.pending)
        rest == Tail(self.pending)
        gone == self.secret \notin {secrets[i].secret : i \in DOMAIN secrets}
        racing == workers[Peer(w)].pc = "run"
    IN /\ self.pc = "run"
       /\ IF Fails(stmt, articles)
          THEN /\ articles' = articles
               /\ workers' = [workers EXCEPT ![w] =
                                [self EXCEPT !.pc = "done", !.pending = <<>>,
                                             !.response = InternalServerError("UNIQUE constraint failed")]]
          ELSE /\ articles' = Execute(stmt, articles)
               /\ workers' = [workers EXCEPT ![w] =
                                [self EXCEPT
                                    !.pc = IF rest = <<>> THEN "done" ELSE "run",
                                    !.pending = rest,
                                    !.response = IF rest = <<>>
                                                 THEN Answer(self.request, stmt)
                                                 ELSE self.response,
                                    !.revokedAtRun = self.revokedAtRun \/ gone,
                                    !.raced = self.raced \/ racing]]
       /\ UNCHANGED <<secrets, clock, issued, collided, revoked, last, slug>>

ReceiveCreateArticle(d) ==
    \E w \in Workers, secret \in d.tokens, title \in d.titles,
       content \in d.contents :
        receive(w, secret, CreateArticle(title, content))

ReceiveYankArticle(d) ==
    \E w \in Workers, secret \in d.tokens, id \in d.uuids :
        receive(w, secret, YankArticle(id))

ReceiveUpdateArticle(d) ==
    \E w \in Workers, secret \in d.tokens, id \in d.uuids,
       title \in Options(d.titles), content \in Options(d.contents) :
        receive(w, secret, UpdateArticle(id, title, content))

CheckSecret(d) ==
    \E w \in Workers, uuid \in d.uuids, now \in clock..d.maxTime :
        check_secret(w, uuid, now)

RunStatement == \E w \in Workers : run_statement(w)

---------------------------------------------------------------------------
(* The article store behind one issued secret: every operation of the API  *)
(* on two titles and two contents.                                         *)

StoreDomain ==
    [tokens |-> {"s1"},
     titles |-> {<<"a", "Z">>, <<"7", " ", "-">>},
     contents |-> {"c1", "c2"},
     uuids |-> {"u1", "u2"},
     urls |-> {<<"a", "Z">>, <<"7", "_", "-">>},
     maxTime |-> MaxTime]

Init ==
    /\ articles = <<>>
    /\ secrets = <<[id |-> 1, secret |-> "s1"]>>
    /\ clock = 0
    /\ issued = {"s1"}
    /\ collided = FALSE
    /\ revoked = {}
    /\ last = NoRequest
    /\ slug = NoSlug
    /\ workers = NoWorkers

Next ==
    \/ ApiCreateArticle(StoreDomain)
    \/ ApiGetArticle(StoreDomain)
    \/ ApiYankArticle(StoreDomain)
    \/ ApiUpdateArticle(StoreDomain)
    \/ ApiListArticles(StoreDomain)

Spec == Init /\ [][Next]_vars

---------------------------------------------------------------------------
(* Lookup by slug: articles created, retitled, yanked and fetched, by the  *)
(* API and by the page, with titles of which two have the same slug; the   *)
(* urls are the two slugs and a title that is not its own slug.            *)

LookupDomain ==
    [tokens |-> {"s1"},
     titles |-> {<<"a", "Z">>, <<"a", "!", "Z">>, <<"7", " ", "-">>},
     contents |-> {"c1", "c2"},
     uuids |-> {"u1", "u2"},
     urls |-> {<<"a", "Z">>, <<"7", "_", "-">>, <<"a", "!", "Z">>},
     maxTime |-> 0]

LookupNext ==
    \/ ApiCreateArticle(LookupDomain)
    \/ ApiGetArticle(LookupDomain)
    \/ ApiYankArticle(LookupDomain)
    \/ ApiUpdateArticle(LookupDomain)
    \/ GetArticlePage(LookupDomain)

LookupSpec == Init /\ [][LookupNext]_vars

---------------------------------------------------------------------------
(* Secrets created and revoked while requests come in: every operation of  *)
(* the API with tokens that are, are not yet, or are no longer in the      *)
(* table.                                                                  *)

AuthDomain ==
    [tokens |-> {"s1", "s2"},
     titles |-> {<<"a", "Z">>},
     contents |-> {"c1", "c2"},
     uuids |-> {"u1"},
     urls |-> {<<"a", "Z">>, <<"7">>},
     maxTime |-> 0]

AuthInit ==
    /\ articles = <<>>
    /\ secrets = <<>>
    /\ clock = 0
    /\ issued = {}
    /\ collided = FALSE
    /\ revoked = {}
    /\ last = NoRequest
    /\ slug = NoSlug
    /\ workers = NoWorkers

AuthNext ==
    \/ ApiCreateArticle(AuthDomain)
    \/ ApiGetArticle(AuthDomain)
    \/ ApiYankArticle(AuthDomain)
    \/ ApiUpdateArticle(AuthDomain)
    \/ ApiListArticles(AuthDomain)
    \/ CreateSecret(AuthDomain)
    \/ RevokeSecret

AuthSpec == AuthInit /\ [][AuthNext]_vars

---------------------------------------------------------------------------
(* The listing and the feed over articles published at up to three times.  *)

ListDomain ==
    [tokens |-> {"s1"},
     titles |-> {<<"a", "Z">>},
     contents |-> {"c1"},
     uuids |-> {"u1", "u2", "u3"},
     urls |-> {<<"a", "Z">>},
     maxTime |-> MaxListTime]

ListNext ==
    \/ ApiCreateArticle(ListDomain)
    \/ ApiYankArticle(ListDomain)
    \/ ApiUpdateArticle(ListDomain)
    \/ index
    \/ rss_feed

ListSpec == Init /\ [][ListNext]_vars

---------------------------------------------------------------------------
(* Two writing requests in flight at once, against one article, while the  *)
(* one issued secret is revoked.                                           *)

ConcDomain ==
    [tokens |-> {"s1"},
     titles |-> {<<"a", "Z">>, <<"7", " ", "-">>},
     contents |-> {"c1", "c2"},
     uuids |-> {"u1"},
     urls |-> {<<"a", "Z">>},
     maxTime |-> 0]

ConcNext ==
    \/ ReceiveCreateArticle(ConcDomain)
    \/ ReceiveYankArticle(ConcDomain)
    \/ ReceiveUpdateArticle(ConcDomain)
    \/ CheckSecret(ConcDomain)
    \/ RunStatement
    \/ RevokeSecret

ConcSpec == Init /\ [][ConcNext]_vars

---------------------------------------------------------------------------
(* to_url on every title of up to MaxLen characters, and on its own        *)
(* result.                                                                 *)

SlugInit ==
    /\ articles = <<>>
    /\ secrets = <<>>
    /\ clock = 0
    /\ issued = {}
    /\ collided = FALSE
    /\ revoked = {}
    /\ last = NoRequest
    /\ slug \in {[title |-> t, once |-> None, twice |-> None] :
                    t \in SeqsUpTo(Alphabet, MaxLen)}
    /\ workers = NoWorkers

Slugify ==
    /\ ~slug.once.some
    /\ slug' = [slug EXCEPT !.once = Some(to_url(slug.title))]
    /\ UNCHANGED <<articles, secrets, clock, issued, collided, revoked, last,
                 workers>>

SlugifyAgain ==
    /\ slug.once.some
    /\ ~slug.twice.some
    /\ slug' = [slug EXCEPT !.twice = Some(to_url(slug.once.value))]
    /\ UNCHANGED <<articles, secrets, clock, issued, collided, revoked, last,
                 workers>>

SlugNext == Slugify \/ SlugifyAgain

SlugSpec == SlugInit /\ [][SlugNext]_vars

---------------------------------------------------------------------------
(* Properties *)

IsApiRequest == last.request.op \in ApiOps

InvalidSecretResponse ==
    /\ last.response.kind = "Error"
    /\ last.response.body = "Invalid secret"

\* the row of a table with the given id (the id is in the table)
RowOf(table, id) == table[CHOOSE i \in DOMAIN table : table[i].id = id]

\* C1: a request of any of the five operations whose secret is in no row of
\* the secrets table is answered Error("Invalid secret") and leaves the
\* articles table as it was.
C1_AuthorizationGate ==
    (IsApiRequest /\ ~last.valid) =>
        (InvalidSecretResponse /\ articles = last.before)

\* an update that names a stored article and new fields was turned away
\* while another token was in the table
C1_Witness ==
    /\ last.request.op = "UpdateArticle"
    /\ ~last.valid
    /\ secrets # <<>>
    /\ last.request.id \in Ids(last.before)
    /\ last.request.title.some
    /\ InvalidSecretResponse

\* C2: with every generated token a new one, a request that comes in with a
\* token whose row revoke_secret has deleted is answered
\* Error("Invalid secret") and leaves the articles table as it was.
C2_RevocationTakesEffect ==
    (IsApiRequest /\ last.afterRevoke /\ last.distinctTokens) =>
        (InvalidSecretResponse /\ articles = last.before)

\* the only token ever generated created an article, was revoked, and the
\* next create with it was turned away
C2_Witness ==
    /\ last.request.op = "CreateArticle"
    /\ last.afterRevoke
    /\ last.distinctTokens
    /\ issued = {last.secret}
    /\ last.before # <<>>
    /\ InvalidSecretResponse

\* C3: with a valid secret, an update of a stored article that gives only a
\* title changes that row's title and nothing else, one that gives only a
\* content changes that row's content and nothing else, one that gives
\* neither changes nothing; the other rows stay and the answer is Ok.
C3_UpdatePartiality ==
    (/\ last.request.op = "UpdateArticle"
     /\ last.valid
     /\ last.request.id \in Ids(last.before)
     /\ ~(last.request.title.some /\ last.request.content.some)) =>
        /\ last.response.kind = "Ok"
        /\ DOMAIN articles = DOMAIN last.before
        /\ \A i \in DOMAIN articles :
            LET old == last.before[i]
                new == articles[i]
            IN IF old.id # last.request.id THEN new = old
               ELSE /\ new.id = old.id
                    /\ new.published = old.published
                    /\ new.title = IF last.request.title.some
                                   THEN last.request.title.value ELSE old.title
                    /\ new.content = IF last.request.content.some
                                     THEN last.request.content.value ELSE old.content

\* a title-only update changed one of two stored rows
C3_Witness ==
    /\ last.request.op = "UpdateArticle"
    /\ last.valid
    /\ last.request.title.some
    /\ ~last.request.content.some
    /\ Len(last.before) = 2
    /\ last.request.id \in Ids(last.before)
    /\ articles # last.before

\* C4: with a valid secret, YankArticle{id} is answered Ok and leaves no row
\* with that id; issued right after a YankArticle{id} with a valid secret,
\* it is answered Ok again and leaves the table as the first call left it.
C4_DeleteIdempotence ==
    (last.request.op = "YankArticle" /\ last.valid) =>
        /\ last.response.kind = "Ok"
        /\ last.request.id \notin Ids(articles)
        /\ (/\ last.follows.op = "YankArticle"
            /\ last.follows.id = last.request.id
            /\ last.follows.valid) => articles = last.before

\* the second of two yanks of the same id, with another article stored
C4_Witness ==
    /\ last.request.op = "YankArticle"
    /\ last.valid
    /\ last.follows.op = "YankArticle"
    /\ last.follows.id = last.request.id
    /\ last.follows.valid
    /\ last.response.kind = "Ok"
    /\ articles # <<>>

\* the request before the last one created an article, and the last one
\* asks, with a valid secret, for the slug of that article's title
GetFollowsCreate ==
    /\ last.request.op = "GetArticle"
    /\ last.valid
    /\ last.follows.op = "CreateArticle"
    /\ last.follows.valid
    /\ last.follows.id \in Ids(last.before)
    /\ last.request.url = to_url(RowOf(last.before, last.follows.id).title)

\* the body of the last response carries the given row
Carries(row) ==
    /\ last.response.kind \in {"Article", "String"}
    /\ last.response.body = row

\* a create that is answered ArticleId(id) has stored, as the last row, a row
\* with that id and the title and content of the request
CreateStores ==
    (/\ last.request.op = "CreateArticle"
     /\ last.response.kind = "ArticleId") =>
        /\ Len(articles) = Len(last.before) + 1
        /\ articles[Len(articles)].id = last.response.body
        /\ articles[Len(articles)].title = last.request.title
        /\ articles[Len(articles)].content = last.request.content

\* an article stored before the given one has a title with the same slug
SlugTakenBefore(table, id) ==
    \E i, j \in DOMAIN table :
        /\ i < j
        /\ table[j].id = id
        /\ to_url(table[i].title) = to_url(table[j].title)

\* C5 as stated: whatever the store holds, a GetArticle for the slug of the
\* title of the article that the request before it created returns that
\* article.
C5_RoundTripAnyStore ==
    /\ CreateStores
    /\ GetFollowsCreate => Carries(RowOf(last.before, last.follows.id))

\* C5: a GetArticle for the slug of the title of the article that the
\* request before it created returns that article when no article stored
\* before it has a title with the same slug, and otherwise the first stored
\* article whose title has that slug.
C5_RoundTrip ==
    /\ CreateStores
    /\ GetFollowsCreate =>
        IF SlugTakenBefore(last.before, last.follows.id)
        THEN \E i \in DOMAIN last.before :
                /\ to_url(last.before[i].title) = last.request.url
                /\ \A j \in 1..(i - 1) : to_url(last.before[j].title) # last.request.url
                /\ Carries(last.before[i])
        ELSE Carries(RowOf(last.before, last.follows.id))

\* the article just created was fetched by its slug past an older article
\* with another slug, and the title is not its own slug
C5_Witness ==
    /\ GetFollowsCreate
    /\ Len(last.before) = 2
    /\ ~SlugTakenBefore(last.before, last.follows.id)
    /\ last.request.url # RowOf(last.before, last.follows.id).title
    /\ Carries(last.before[2])

\* C6 as stated: the body of every answered API request is a variant of
\* Response, and a GetArticle that finds an article is answered with the
\* Article variant carrying the row.
C6_ClosedResponseUnion ==
    (IsApiRequest /\ last.response.kind # "InternalServerError") =>
        /\ last.response.kind \in ResponseVariants
        /\ last.request.op = "GetArticle" /\ last.valid =>
            /\ last.response.kind = "Article"
            /\ last.response.body \in {last.before[i] : i \in DOMAIN last.before}

\* the rows of a table whose ids are in S, and the ids of a table's rows
Kept(table, S) == SelectSeq(table, LAMBDA r : r.id \in S)
IdsInOrder(table) == [i \in DOMAIN table |-> table[i].id]

\* C9: a row of articles keeps its id and its published from the request
\* that creates it to the request that yanks it: a step changes the published
\* of no id, an id leaves the table only by a YankArticle that names it, and
\* an id enters it only by a CreateArticle answered with it, as the last row,
\* and the rows that stay keep their order.
C9_WriteOnce ==
    [][/\ \A i \in DOMAIN articles : \A j \in DOMAIN articles' :
            articles'[j].id = articles[i].id =>
                articles'[j].published = articles[i].published
       /\ \A id \in Ids(articles) \ Ids(articles') :
            last'.request = YankArticle(id)
       /\ \A id \in Ids(articles') \ Ids(articles) :
            /\ last'.request.op = "CreateArticle"
            /\ last'.response = Response_ArticleId(id)
            /\ articles'[Len(articles')].id = id
       /\ IdsInOrder(Kept(articles', Ids(articles)))
            = IdsInOrder(Kept(articles, Ids(articles')))
      ]_vars

\* an article published before the current time had its content updated
C9_Witness ==
    /\ last.request.op = "UpdateArticle"
    /\ last.valid
    /\ last.request.content.some
    /\ last.request.id \in Ids(last.before)
    /\ articles # last.before
    /\ RowOf(articles, last.request.id).published < clock

\* the characters of a sequence
Chars(str) == {str[i] : i \in DOMAIN str}

\* how often c is in a sequence
Count(str, c) == Cardinality({i \in DOMAIN str : str[i] = c})

\* C7 as stated: every character of to_url(t) is an ASCII letter, an ASCII
\* digit, '.', '_' or '~'.
C7_SlugCharacterSetAscii ==
    slug.once.some =>
        Chars(slug.once.value) \subseteq AsciiLetters \cup AsciiDigits \cup {".", "_", "~"}

\* C7: every character of to_url(t) is alphanumeric (char::is_alphanumeric,
\* which holds of letters and digits outside ASCII too) or one of '-', '.',
\* '_', '~'; every whitespace character of t has become a '_', the
\* alphanumeric characters and '-', '.', '~' are kept in their order, and
\* nothing else is in the result.
C7_SlugCharacterSet ==
    slug.once.some =>
        /\ Chars(slug.once.value) \subseteq
                AsciiLetters \cup AsciiDigits \cup NonAsciiAlphanumerics
                    \cup {"-", ".", "_", "~"}
        /\ Count(slug.once.value, "_")
                = Count(slug.title, "_")
                    + Cardinality({i \in DOMAIN slug.title : slug.title[i] \in Whitespace})
        /\ SelectSeq(slug.once.value, LAMBDA c : c # "_")
                = SelectSeq(slug.title, LAMBDA c : c \notin Whitespace \cup Punctuation \cup {"_"})

\* a title with a whitespace, a dropped and a '-' character
C7_Witness ==
    /\ slug.once.some
    /\ Chars(slug.title) = {" ", "!", "-"}
    /\ slug.once.value # slug.title

\* C8: to_url applied to its own result returns it: to_url(to_url(t)) =
\* to_url(t), and to_url(s) = s for a string s of characters that to_url
\* puts out.
C8_SlugIdempotence ==
    /\ slug.twice.some => slug.twice.value = slug.once.value
    /\ (/\ slug.once.some
        /\ Chars(slug.title) \cap (Whitespace \cup Punctuation) = {}) =>
            slug.once.value = slug.title

\* to_url was applied twice to a title that it changes and whose slug has
\* a '_' made from a whitespace character
C8_Witness ==
    /\ slug.twice.some
    /\ slug.once.value # slug.title
    /\ " " \in Chars(slug.title)
    /\ "_" \in Chars(slug.twice.value)

\* the listing or the feed was asked for
IsListing == last.request.op \in {"index", "rss_feed"}

\* the published values of the rows of the last response, in its order
ListedTimes ==
    IF last.request.op = "index"
    THEN [i \in DOMAIN last.response.body |-> last.response.body[i].published]
    ELSE [i \in DOMAIN last.response.body |-> last.response.body[i].pub_date]

\* the rows (for the feed: their items) as a bag: how often each is there
AsBag(rows) ==
    [r \in {rows[i] : i \in DOMAIN rows} |-> Cardinality({i \in DOMAIN rows : rows[i] = r})]

\* the last response holds every stored article once
ListsEveryArticle ==
    AsBag(last.response.body)
        = IF last.request.op = "index" THEN AsBag(last.before)
          ELSE AsBag([i \in DOMAIN last.before |-> Item(last.before[i])])

\* C10 as stated: the listing and the feed return every stored article, each
\* before all that were published earlier and no two with the same published.
C10_ListingStrictlyNewestFirst ==
    IsListing =>
        /\ ListsEveryArticle
        /\ \A i, j \in DOMAIN ListedTimes : i < j => ListedTimes[i] > ListedTimes[j]

\* C10: the listing and the feed return every stored article, none before
\* one that was published later; articles published at T1 < T2 < T3 come in
\* the order T3, T2, T1, and articles with the same published in either order.
C10_ListingNewestFirst ==
    IsListing =>
        /\ ListsEveryArticle
        /\ \A i, j \in DOMAIN ListedTimes : i < j => ListedTimes[i] >= ListedTimes[j]

\* three articles published at three times, stored oldest first and listed
\* newest first, right after an update
C10_Witness ==
    /\ last.request.op = "index"
    /\ ListedTimes = <<2, 1, 0>>
    /\ [i \in DOMAIN articles |-> articles[i].published] = <<0, 1, 2>>
    /\ last.follows.op = "UpdateArticle"

---------------------------------------------------------------------------
(* C11: lookups by slug when slugs collide *)

\* the entry is a lookup by slug: a GetArticle that passed the gate, or
\* GET /article/:id
IsLookup(entry) ==
    \/ entry.request.op = "GetArticle" /\ entry.valid
    \/ entry.request.op = "get_article"

\* the lookup of the entry was answered with an article
Found(entry) == entry.response.kind \in {"String", "ArticleTemplate"}

\* the position in the table of the first row whose title's slug is url, or
\* 0 when no title has that slug
FirstWithSlug(table, url) ==
    LET hits == {i \in DOMAIN table : to_url(table[i].title) = url}
    IN IF hits = {} THEN 0 ELSE CHOOSE i \in hits : \A j \in hits : i <= j

\* the lookup of the entry was answered with the first row, in the order of
\* the table, whose title's slug is the url asked for, and with no article
\* when there is no such row
AnswersFirstWithSlug(entry) ==
    LET i == FirstWithSlug(entry.before, entry.request.url)
    IN IF i = 0 THEN ~Found(entry)
       ELSE /\ Found(entry)
            /\ entry.response.body = entry.before[i]
            /\ to_url(entry.response.body.title) = entry.request.url

\* two lookups of the same url over the same table were answered alike
SameAnswer(earlier, later) ==
    (/\ earlier.request.url = later.request.url
     /\ earlier.before = later.before) =>
        /\ Found(earlier) <=> Found(later)
        /\ Found(earlier) => earlier.response.body = later.response.body

\* C11: a lookup by slug, through the API or through GET /article/:id, is
\* answered with the first stored article, in the order of the table, whose
\* title's slug is the url asked for, never with an article whose title has
\* another slug, and a lookup that comes right after a lookup of the same
\* url over the unchanged table gets the same article.
C11_SlugLookupUnderCollisions ==
    [][IsLookup(last') =>
        /\ AnswersFirstWithSlug(last')
        /\ IsLookup(last) => SameAnswer(last, last')]_vars

\* two stored articles with different titles and the same slug, looked up
\* through the API and then through the page: the page shows the older one
C11_Witness ==
    /\ last.request.op = "get_article"
    /\ last.follows.op = "GetArticle"
    /\ last.follows.valid
    /\ Len(last.before) = 2
    /\ last.before[1].title # last.before[2].title
    /\ to_url(last.before[1].title) = last.request.url
    /\ to_url(last.before[2].title) = last.request.url
    /\ last.response.kind = "ArticleTemplate"
    /\ last.response.body = last.before[1]

---------------------------------------------------------------------------
(* C13: update of an article that is not stored *)

\* the last request is an UpdateArticle that passed the gate, for an id that
\* no row of the table had
UpdateOfMissingArticle ==
    /\ last.request.op = "UpdateArticle"
    /\ last.valid
    /\ last.request.id \notin Ids(last.before)

\* C13: an UpdateArticle with a valid secret for an id that is not in the
\* store, whichever of title and content it carries, is answered Ok and
\* leaves the articles table as it was: no row is added and no row changes.
C13_UpdateOfMissingArticle ==
    UpdateOfMissingArticle =>
        /\ last.response.kind = "Ok"
        /\ articles = last.before

\* an update of title and content for an id that is not stored, while
\* another article is
C13_Witness ==
    /\ UpdateOfMissingArticle
    /\ last.request.title.some
    /\ last.request.content.some
    /\ last.before # <<>>
    /\ last.response.kind = "Ok"
    /\ articles = last.before

---------------------------------------------------------------------------
(* C14: a GetArticle for a slug that no stored title has *)

\* the entry is a GetArticle that passed the gate, for a url that is the
\* slug of no title in the table
GetArticleMiss(entry) ==
    /\ entry.request.op = "GetArticle"
    /\ entry.valid
    /\ \A i \in DOMAIN entry.before :
          to_url(entry.before[i].title) # entry.request.url

\* C14: a GetArticle with a valid secret for a url that is the slug of no
\* stored title ends in the internal server error made from TkError (HTTP
\* 500), not in Response::Error and not in Response::Ok, and the request
\* changes neither the articles table nor the secrets table.
C14_GetArticleMiss ==
    [][GetArticleMiss(last') =>
        /\ last'.response.kind = "InternalServerError"
        /\ last'.response.kind \notin {"Error", "Ok"}
        /\ last' # last => (articles' = articles /\ secrets' = secrets)]_vars

\* a miss while an article and a secret are stored
C14_Witness ==
    /\ GetArticleMiss(last)
    /\ last.before # <<>>
    /\ articles = last.before
    /\ secrets # <<>>
    /\ last.response.kind = "InternalServerError"
    /\ last.response.body = "No article with url found"

---------------------------------------------------------------------------
(* C12: two updates of title and content of one article, in flight at once *)

\* the worker has finished an UpdateArticle that carried both fields and was
\* answered Ok
UpdatedBoth(w) ==
    /\ workers[w].pc = "done"
    /\ workers[w].request.op = "UpdateArticle"
    /\ workers[w].request.title.some
    /\ workers[w].request.content.some
    /\ workers[w].response.kind = "Ok"

\* the row has the title and the content that the worker's request carried
HasPairOf(row, w) ==
    /\ row.title = workers[w].request.title.value
    /\ row.content = workers[w].request.content.value

\* C12: when two UpdateArticle requests for the same stored id, each with a
\* title and a content, have both been answered, however their statements
\* interleaved, the row has the title and the content of one and the same
\* request: never the title of one with the content of the other.
C12_TwoFieldUpdateAtomic ==
    \A w \in Workers :
        (/\ UpdatedBoth(w)
         /\ UpdatedBoth(Peer(w))
         /\ workers[w].request.id = workers[Peer(w)].request.id
         /\ workers[w].request.id \in Ids(articles)) =>
            LET row == RowOf(articles, workers[w].request.id)
            IN HasPairOf(row, w) \/ HasPairOf(row, Peer(w))

\* two such requests with different titles and different contents, one
\* writing while the other was between its gate and its statement; the
\* row is that of the one that wrote last
C12_Witness ==
    \E w \in Workers :
        /\ UpdatedBoth(w)
        /\ UpdatedBoth(Peer(w))
        /\ workers[w].request.id = workers[Peer(w)].request.id
        /\ workers[w].request.title # workers[Peer(w)].request.title
        /\ workers[w].request.content # workers[Peer(w)].request.content
        /\ workers[w].raced
        /\ ~workers[Peer(w)].raced
        /\ workers[w].request.id \in Ids(articles)
        /\ HasPairOf(RowOf(articles, workers[w].request.id), Peer(w))

---------------------------------------------------------------------------
(* C15: the gate and the statement it guards, with a revoke in between *)

\* this step is the worker executing the next statement of its arm
Ran(w) ==
    /\ workers[w].pc = "run"
    /\ workers'[w].pending # workers[w].pending

\* C15: whatever the interleaving of API requests and secret revoke, the
\* articles table changes only by a statement of a request that went
\* through the gate before and whose secret was in the secrets table when
\* the gate's SELECT ran; and once past the gate the statement is applied
\* as it stands, whether or not the secret has been revoked since.
C15_CheckThenAct ==
    [][/\ articles' # articles =>
            \E w \in Workers : Ran(w) /\ workers[w].validAtCheck
       /\ \A w \in Workers :
            Ran(w) =>
                /\ workers[w].validAtCheck
                /\ ~Fails(Head(workers[w].pending), articles) =>
                      articles' = Execute(Head(workers[w].pending), articles)]_vars

\* a CreateArticle whose secret was in the table at the gate and revoked
\* before the INSERT: the article is stored and the request answered with
\* its id
C15_Witness ==
    \E w \in Workers :
        /\ workers[w].pc = "done"
        /\ workers[w].request.op = "CreateArticle"
        /\ workers[w].validAtCheck
        /\ workers[w].revokedAtRun
        /\ workers[w].secret \in revoked
        /\ workers[w].response.kind = "ArticleId"
        /\ workers[w].response.body \in Ids(articles)

==========================================================================
